---- MODULE Spec2Model ----
(***************************************************************************)
(* Enscriber: the recording session state machine of enscriber.user.js.    *)
(*                                                                         *)
(* The StateManager holds one state object; setState merges an update into *)
(* it and synchronously notifies the listeners.  The RecordingEngine is a  *)
(* listener: on a mode change it starts, pauses or stops capture, and      *)
(* those handlers call setState again (re-entrantly).  One action of this  *)
(* module is one outermost call (a public method, a panel button, a        *)
(* document event) run to completion, nested notifications included.       *)
(***************************************************************************)
EXTENDS Integers, Sequences, FiniteSets, TLC

\* ------------------------------------------------------------------ bounds
MaxTime == 1
MaxIds == 3
MaxActions == 2
MaxNodes == 3

\* --------------------------------------------------------------- constants
INACTIVE == "inactive"
AUTO_RECORDING == "auto_recording"
MANUAL_SELECTION == "manual_selection"
PAUSED == "paused"
Modes == {INACTIVE, AUTO_RECORDING, MANUAL_SELECTION, PAUSED}

\* A mode string that is not one of ENSCRIBER_CONFIG.modes.
BogusMode == "recording"

\* currentSession is null or a session object: the empty or a one-element sequence.
Null == <<>>
Some(s) == <<s>>
\* endTime is absent from an open session.
NoTime == -1
\* `currentSession || { actions: [] }` yields an object without id and startTime.
NoId == 0

VARIABLES
    state,            \* StateManager.state: mode, isRecording, isPaused, currentSession
    isSelectionMode,  \* ElementSelector.isSelectionMode (capture listeners attached)
    recordingMode,    \* RecordingEngine.recordingMode
    engineRecording,  \* RecordingEngine.isRecording
    isMonitoring,     \* NetworkRequestMonitor.isMonitoring
    storage,          \* GM storage: the sessions written by GM_setValue, by key
    now,              \* Date.now()
    nextId,           \* source of the generated unique ids
    lastEmit,         \* the last event EnscribeCore.emit sent
    lastOp,           \* the outermost call that ran last
    pre,              \* the program's state when that call began
    pausedFrom,       \* the mode the machine was in when it last entered Paused
    highlight,        \* ElementHighlighter: the overlay is displayed
    throttled,        \* the throttled mousemove handler: has it run, is a call deferred
    toasts,           \* showActionConfirmation: toasts shown, each with its 2 s timeout
    networkRequests,  \* state.networkRequests, the requests the panel lists
    editDialog,       \* the open edit dialog: the state and index its closure holds
    scenario,         \* history: the captures since a start(manual) from Inactive
    target,           \* the properties of the page element "target"
    tree,             \* the other elements of the page, below body, by node name
    notified,         \* history: the notifications of the last outermost call
    closure,          \* the variables of the closure throttle() returned, with
                      \* the times func ran (history)
    monitor           \* window.fetch and XMLHttpRequest.prototype.open/send, the
                      \* NetworkRequestMonitor's fields, the requests in flight

\* The session machine, and what the capture handlers show on the page.
machineVars == <<state, isSelectionMode, recordingMode, engineRecording, isMonitoring,
                 storage, nextId, lastEmit, lastOp, pre, pausedFrom>>
pageVars == <<highlight, throttled, toasts>>
panelVars == <<networkRequests, editDialog>>

vars == <<state, isSelectionMode, recordingMode, engineRecording, isMonitoring,
          storage, now, nextId, lastEmit, lastOp, pre, pausedFrom,
          highlight, throttled, toasts, networkRequests, editDialog, scenario, target, tree, notified, closure, monitor>>

\* No setState has run in the call: no mode transition and no listener call.
NoNotifications == [transitions |-> <<>>, updates |-> 0,
                    ui |-> <<>>, actionList |-> <<>>, recording |-> <<>>,
                    selection |-> <<>>, failing |-> "", uncaught |-> FALSE]

\* The mutable program state a handler works on, as one record.
World == [state |-> state, isSelectionMode |-> isSelectionMode,
          recordingMode |-> recordingMode, engineRecording |-> engineRecording,
          isMonitoring |-> isMonitoring, storage |-> storage,
          nextId |-> nextId, now |-> now, saveOk |-> TRUE,
          highlight |-> highlight, toasts |-> toasts, visible |-> TRUE,
          bounds |-> <<[left |-> 8, top |-> 16, width |-> 120, height |-> 24]>>,
          networkRequests |-> networkRequests,
          notified |-> NoNotifications, monitor |-> monitor]

\* ------------------------------------------------------------ StateManager
RECURSIVE SetState(_, _)
RECURSIVE NotifyListeners(_, _, _)
RECURSIVE HandleModeChange(_, _, _)
RECURSIVE StartManualSelection(_)
RECURSIVE StartAutoRecording(_)
RECURSIVE InitializeSession(_)
RECURSIVE EnableSelectionMode(_)
RECURSIVE StopRecording(_)
RECURSIVE SelectElement(_, _)

\* GM_setValue(key, JSON.stringify(sessionData)) inside try/catch: the write
\* either lands under the session's key or throws and is swallowed.
GMSetSession(w, sessionData) ==
    IF w.saveOk
    THEN [w EXCEPT !.storage = (sessionData.id :> sessionData) @@ w.storage]
    ELSE w

\* setState: previousState = copy, state = {...state, ...updates}, notify.
SetState(w, updates) ==
    LET previousState == w.state
        newState == updates @@ w.state
        w1 == [w EXCEPT !.state = newState,
                        !.notified.updates = @ + 1,
                        !.notified.transitions =
                            IF newState.mode # previousState.mode
                            THEN Append(@, [new |-> newState.mode,
                                            prev |-> previousState.mode])
                            ELSE @]
    IN NotifyListeners(w1, previousState, w1.state)

\* The UIManager's listeners, which redraw the panel.
Listeners == {"ui", "actionList", "recording", "selection"}

\* callback(newState, previousState) for a listener of the UIManager:
\* w.notified keeps the (new mode, previous mode) it was called with. The
\* listener w.notified.failing throws while it redraws.
Callback(w, listener, call) == [w EXCEPT !.notified[listener] = Append(@, call)]

\* notifyListeners without the try/catch around each callback: the first
\* listener that throws ends both forEach loops and the exception leaves
\* setState.
NotifyListenersNoCatch(w, previousState, newState) ==
    LET call == [new |-> newState.mode, prev |-> previousState.mode]
        Uncaught(x) == [x EXCEPT !.notified.uncaught = TRUE]
        a == Callback(w, "ui", call)
        b == Callback(a, "actionList", call)
        c == Callback(b, "recording", call)
        d == IF newState.mode # previousState.mode
             THEN HandleModeChange(c, newState.mode, previousState.mode)
             ELSE c
        e == Callback(d, "selection", call)
    IN IF w.notified.failing = "ui" THEN Uncaught(a)
       ELSE IF w.notified.failing = "actionList" THEN Uncaught(b)
       ELSE IF w.notified.failing = "recording" THEN Uncaught(c)
       ELSE IF w.notified.failing = "selection" THEN Uncaught(e)
       ELSE e

\* The listeners run in the order of the Map's keys and of each key's list:
\* 'ui' (updatePanelFromState, then the listener of the action list),
\* 'recording' (the UIManager's, registered first, then the
\* RecordingEngine's), 'selection'. Each callback runs in a try whose catch
\* logs the error, so a listener that throws changes nothing and the next
\* one is called.
NotifyListeners(w, previousState, newState) ==
    LET call == [new |-> newState.mode, prev |-> previousState.mode]
        a == Callback(w, "ui", call)
        b == Callback(a, "actionList", call)
        c == Callback(b, "recording", call)
        d == IF newState.mode # previousState.mode
             THEN HandleModeChange(c, newState.mode, previousState.mode)
             ELSE c
    IN Callback(d, "selection", call)

\* ----------------------------------------------------------- EnscribeUtils
\* getElementBounds: w.bounds is what element.getBoundingClientRect() does
\* for the element of the event, a rectangle <<r>> or <<>> when it throws;
\* the catch answers the zero rectangle.
GetElementBoundsUnchecked(w) ==
    IF w.bounds = <<>> THEN [left |-> 8, top |-> 16, width |-> 120, height |-> 24]
    ELSE w.bounds[1]

GetElementBounds(w) ==
    IF w.bounds = <<>> THEN [left |-> 0, top |-> 0, width |-> 0, height |-> 0]
    ELSE w.bounds[1]

\* isElementVisible: w.visible is what the computed style allows.
IsElementVisible(w) ==
    w.visible /\ GetElementBounds(w).width > 0 /\ GetElementBounds(w).height > 0

\* ------------------------------------------------------ ElementHighlighter
HideHighlight(w) == [w EXCEPT !.highlight = FALSE]

\* highlightElement: an element that is not visible hides the overlay.
HighlightElement(w) ==
    IF ~IsElementVisible(w) THEN HideHighlight(w) ELSE [w EXCEPT !.highlight = TRUE]

\* ----------------------------------------------------------------- the page
\* The nodes a mouse event can land on: the page's own, and those the tool
\* injects (panel host and its shadow tree, highlight overlay, confirmation
\* toast, a dialog with its content and a button).
NoElement == "null"
Document == "#document"
ShadowRoot == "#shadow-root"
PanelId == "enscriber-floating-panel"
OverlayId == "enscriber-highlight-overlay"

HTML == "http://www.w3.org/1999/xhtml"
SVG == "http://www.w3.org/2000/svg"

\* The names of the page's further elements, in document order.
TreeNodeNames == <<"e1", "e2", "e3", "e4", "e5">>

Node(id, className, parent, root) ==
    [id |-> id, className |-> className, parent |-> parent, root |-> root]

Dom ==
    [n \in {Document, "html", "body", "form", "button", "target", "panel", ShadowRoot,
            "panelBody", "panelStatus", "overlay", "toast", "dialog",
            "dialogContent", "dialogSave"} \cup DOMAIN tree |->
       CASE n = Document        -> Node("", "", NoElement, Document)
         [] n = "html"          -> Node("", "", Document, Document)
         [] n = "body"          -> Node("", "", "html", Document)
         [] n = "form"          -> Node("", "checkout", "body", Document)
         [] n = "button"        -> Node("submit", "", "form", Document)
         [] n = "target"        -> Node("", target.class, target.parent, Document)
         [] n = "panel"         -> Node(PanelId, "", "body", Document)
         [] n = ShadowRoot      -> Node("", "", NoElement, ShadowRoot)
         [] n = "panelBody"     -> Node("", "enscriber-panel", ShadowRoot, ShadowRoot)
         [] n = "panelStatus"   -> Node("", "", "panelBody", ShadowRoot)
         [] n = "overlay"       -> Node(OverlayId, "", "body", Document)
         [] n = "toast"         -> Node("", "", "body", Document)
         [] n = "dialog"        -> Node("", "", "body", Document)
         [] n = "dialogContent" -> Node("", "", "dialog", Document)
         [] n = "dialogSave"    -> Node("save-action", "", "dialogContent", Document)
         [] OTHER               -> Node(tree[n].id, tree[n].class, tree[n].parent, Document)]

\* The page's elements may be SVG elements; the other nodes are HTML.
NamespaceURI(n) ==
    IF n = "target" THEN target.namespaceURI
    ELSE IF n \in DOMAIN tree THEN tree[n].namespaceURI ELSE HTML

\* element.className: the string of the class attribute for an HTML element;
\* for an SVG element the element's SVGAnimatedString object, whose baseVal
\* is the class attribute at the time it is read.
ClassName(n) ==
    IF NamespaceURI(n) = SVG THEN [animatedString |-> n] ELSE [string |-> Dom[n].className]

\* root.host of the one shadow root the tool attaches.
ShadowHost == "panel"

\* The nodes that belong to elements the tool injected.
InjectedNodes == {"panel", "panelBody", "panelStatus", "overlay", "toast",
                  "dialog", "dialogContent", "dialogSave"}

\* s.includes('enscriber') and s.startsWith('enscriber-'), on the strings the
\* page above uses.
IncludesEnscriber(s) == s \in {PanelId, OverlayId, "enscriber-panel"}
StartsWithEnscriber(s) == s \in {PanelId, OverlayId, "enscriber-panel"}

RECURSIVE WalkExcluded(_)
RECURSIVE Closest(_, _)

\* The while loop of isExcludedElement, from currentElement upwards.
WalkExcluded(currentElement) ==
    IF currentElement = NoElement THEN FALSE
    ELSE LET e == Dom[currentElement]
         IN \/ e.id # "" /\ IncludesEnscriber(e.id)
            \/ /\ "string" \in DOMAIN ClassName(currentElement)
               /\ ClassName(currentElement).string # ""
               /\ IncludesEnscriber(ClassName(currentElement).string)
            \/ e.id = PanelId
            \/ e.root # Document /\ Dom[ShadowHost].id = PanelId
            \/ WalkExcluded(e.parent)

\* The four excludeSelectors.
MatchesSelector(n, selector) ==
    LET e == Dom[n]
    IN CASE selector = 1 -> e.id = PanelId
         [] selector = 2 -> e.id = OverlayId
         [] selector = 3 -> StartsWithEnscriber(e.id)
         [] selector = 4 -> IncludesEnscriber(e.className)

\* element.closest(selector): the element or its nearest matching ancestor
\* element; the document and a shadow root are not elements.
Closest(n, selector) ==
    IF n \in {NoElement, Document, ShadowRoot} THEN FALSE
    ELSE MatchesSelector(n, selector) \/ Closest(Dom[n].parent, selector)

IsExcludedElement(element) ==
    IF element = NoElement THEN TRUE
    ELSE \/ WalkExcluded(element)
         \/ \E selector \in 1..4 :
              MatchesSelector(element, selector) \/ Closest(element, selector)

\* --------------------------------------------------------- ElementSelector
EnableSelectionMode(w) ==
    IF w.isSelectionMode
    THEN w
    ELSE SetState([w EXCEPT !.isSelectionMode = TRUE], [mode |-> MANUAL_SELECTION])

DisableSelectionMode(w) ==
    IF ~w.isSelectionMode THEN w
    ELSE HideHighlight([w EXCEPT !.isSelectionMode = FALSE])

\* onMouseMove, the function the throttle wraps.
OnMouseMove(w, element) ==
    IF ~w.isSelectionMode THEN w
    ELSE IF element # NoElement /\ ~IsExcludedElement(element)
         THEN HighlightElement(w)
         ELSE HideHighlight(w)

\* showActionConfirmation: highlight the element, append the toast to
\* document.body and start its 2000 ms timeout.
ShowActionConfirmation(w) ==
    [HighlightElement(w) EXCEPT !.toasts = @ + 1]

\* The timeout of showActionConfirmation: remove the toast, and hide the
\* highlight when the selector is still armed.
ConfirmationTimeout(w) ==
    LET a == [w EXCEPT !.toasts = @ - 1]
    IN IF a.isSelectionMode THEN HideHighlight(a) ELSE a

\* selectElement: build the ActionRecord, append it to
\* `currentState.currentSession || { actions: [] }` and setState the result.
\* (The selectedElement key it also sets is only read by the panel.)
\* The facts of an element that classification and metadata capture read.
Facts(tagName, type, value, placeholder, checked, selectedOptions, textContent) ==
    [tagName |-> tagName, type |-> type, value |-> value, placeholder |-> placeholder,
     checked |-> checked, selectedOptions |-> selectedOptions, textContent |-> textContent]

\* The page's element "target": its facts, its namespace, its class attribute
\* and its parent node (NoElement once it is removed from the tree).
PageElement(facts, namespaceURI, class, parent) ==
    facts @@ [namespaceURI |-> namespaceURI, class |-> class, parent |-> parent]

\* The facts of the nodes of the page: a submit button; an element of any
\* kind, "target"; the tool's toast and dialog button, which carry a text;
\* anything else is an empty div.
ElementFacts(n) ==
    CASE n \in DOMAIN tree -> Facts(tree[n].tagName, "", "", "", FALSE, <<>>,
                                   tree[n].textContent)
      [] n \in {"html", "body", "form"} -> Facts(n, "", "", "", FALSE, <<>>, "")
      [] n = "button"     -> Facts("button", "submit", "", "", FALSE, <<>>, " Submit ")
      [] n = "target"     -> target
      [] n = "toast"      -> Facts("div", "", "", "", FALSE, <<>>, "CLICK action recorded")
      [] n = "dialogSave" -> Facts("button", "submit", "", "", FALSE, <<>>, "Save")
      [] OTHER            -> Facts("div", "", "", "", FALSE, <<>>, "")

RECURSIVE TrimStart(_)
RECURSIVE TrimEnd(_)

\* String.prototype.trim, on the blank character.
TrimStart(s) ==
    IF Len(s) > 0 /\ SubSeq(s, 1, 1) = " " THEN TrimStart(SubSeq(s, 2, Len(s))) ELSE s

TrimEnd(s) ==
    IF Len(s) > 0 /\ SubSeq(s, Len(s), Len(s)) = " "
    THEN TrimEnd(SubSeq(s, 1, Len(s) - 1)) ELSE s

Trim(s) == TrimEnd(TrimStart(s))

\* s.substring(0, n)
Substring0(s, n) == SubSeq(s, 1, IF Len(s) < n THEN Len(s) ELSE n)

ValueTextLimit == 50
MetadataTextLimit == 100

TextInputTypes == {"text", "email", "password", "search", "tel", "url"}
CheckInputTypes == {"checkbox", "radio"}

\* detectedActionType for the default actionType 'click'; a textarea that is
\* taken for a plain clickable element is the variant below.
DetectActionTypeNoTextarea(facts) ==
    IF facts.tagName = "input"
    THEN IF facts.type \in TextInputTypes THEN "input"
         ELSE IF facts.type \in CheckInputTypes THEN "check"
         ELSE "click"
    ELSE IF facts.tagName = "select" THEN "select"
    ELSE "click"

DetectActionType(facts) ==
    IF facts.tagName = "input"
    THEN IF facts.type \in TextInputTypes THEN "input"
         ELSE IF facts.type \in CheckInputTypes THEN "check"
         ELSE "click"
    ELSE IF facts.tagName = "textarea" THEN "input"
    ELSE IF facts.tagName = "select" THEN "select"
    ELSE "click"

GetElementValue(facts, actionType) ==
    CASE actionType = "input" ->
           IF facts.value # "" THEN facts.value
           ELSE IF facts.placeholder # "" THEN facts.placeholder ELSE ""
      [] actionType = "check" -> IF facts.checked THEN "checked" ELSE "unchecked"
      [] actionType = "select" ->
           IF Len(facts.selectedOptions) > 0 THEN facts.selectedOptions[1] ELSE ""
      [] OTHER ->
           IF facts.textContent # ""
           THEN Substring0(Trim(facts.textContent), ValueTextLimit) ELSE ""

\* captureElementMetadata: the fields copied from the element (geometry,
\* styles, parent context and xpath are not modelled here).
\* The attributes of an element: id and class as the page's nodes carry them,
\* data-testid for the elements of the tree; "" stands for no attribute.
GetAttribute(n, name) ==
    CASE name = "id" -> Dom[n].id
      [] name = "class" -> Dom[n].className
      [] name = "data-testid" -> IF n \in DOMAIN tree THEN tree[n].testid ELSE ""

\* getElementAttributes: a new map of attribute name to value.
GetElementAttributes(element) ==
    [name \in {a \in {"id", "class", "data-testid"} : GetAttribute(element, a) # ""} |->
       GetAttribute(element, name)]

\* The elements in document order: the page's own, then the panel host and
\* the highlight overlay appended at start-up, then what is appended later.
ElementOrder ==
    <<"html", "body", "form", "button", "target">> \o SubSeq(TreeNodeNames, 1, MaxNodes)
    \o <<"panel", "overlay", "dialog", "dialogContent", "dialogSave", "toast">>

\* current.parentElement
ParentElement(n) ==
    IF Dom[n].parent \in {Document, ShadowRoot, NoElement} THEN NoElement ELSE Dom[n].parent

\* One step of generateXPath for the element `current`: index counts the
\* previousElementSibling chain; the step is `tag[index]` when index > 1 and
\* the bare `tag` otherwise.
XPathPartAnyTag(current) ==
    LET position == CHOOSE i \in 1..Len(ElementOrder) : ElementOrder[i] = current
        siblings == {ElementOrder[j] : j \in 1..(position - 1)} \cap
                    {s \in DOMAIN Dom : Dom[s].parent = Dom[current].parent}
        index == 1 + Cardinality(siblings)
        tagName == ElementFacts(current).tagName
    IN IF index > 1 THEN [tag |-> tagName, index |-> index] ELSE [tag |-> tagName]

XPathPart(current) ==
    LET position == CHOOSE i \in 1..Len(ElementOrder) : ElementOrder[i] = current
        siblings == {ElementOrder[j] : j \in 1..(position - 1)} \cap
                    {s \in DOMAIN Dom : Dom[s].parent = Dom[current].parent}
        index == 1 + Cardinality({sibling \in siblings :
                       ElementFacts(sibling).tagName = ElementFacts(current).tagName})
        tagName == ElementFacts(current).tagName
    IN IF index > 1 THEN [tag |-> tagName, index |-> index] ELSE [tag |-> tagName]

RECURSIVE XPathParts(_)
\* The parts array of generateXPath, from the outermost ancestor element.
XPathParts(current) ==
    IF current = NoElement THEN <<>>
    ELSE Append(XPathParts(ParentElement(current)), XPathPart(current))

RECURSIVE JoinParts(_)
\* '/' + parts.join('/')
JoinParts(parts) ==
    IF parts = <<>> THEN ""
    ELSE LET part == parts[Len(parts)]
         IN JoinParts(SubSeq(parts, 1, Len(parts) - 1)) \o "/" \o part.tag \o
            (IF "index" \in DOMAIN part THEN "[" \o ToString(part.index) \o "]" ELSE "")

GenerateXPathIdOnly(element) ==
    IF Dom[element].id # "" THEN "//*[@id=\"" \o Dom[element].id \o "\"]" ELSE ""

GenerateXPath(element) ==
    IF Dom[element].id # "" THEN "//*[@id=\"" \o Dom[element].id \o "\"]"
    ELSE IF XPathParts(element) = <<>> THEN "/" ELSE JoinParts(XPathParts(element))

CaptureElementMetadata(w, element) ==
    LET facts == ElementFacts(element)
        bounds == GetElementBounds(w)
    IN [tagName |-> facts.tagName,
        id |-> Dom[element].id,
        className |-> ClassName(element),
        textContent |-> Substring0(Trim(facts.textContent), MetadataTextLimit),
        attributes |-> GetElementAttributes(element),
        position |-> [x |-> bounds.left, y |-> bounds.top,
                      width |-> bounds.width, height |-> bounds.height],
        isVisible |-> IsElementVisible(w),
        xpath |-> GenerateXPath(element)]

ElementAction(w, element) ==
    LET detectedActionType == DetectActionType(ElementFacts(element))
        id == w.nextId
        t == w.now
    IN [id |-> id, timestamp |-> t, type |-> detectedActionType,
        element |-> CaptureElementMetadata(w, element),
        value |-> GetElementValue(ElementFacts(element), detectedActionType),
        notes |-> ""]

NoSession == [id |-> NoId, name |-> "", startTime |-> NoTime, endTime |-> NoTime,
              actions |-> <<>>]

\* selectElement putting the new record in front of the list.
SelectElementInFront(w, element) ==
    LET actionRecord == ElementAction(w, element)
        currentSession == IF w.state.currentSession # Null
                          THEN w.state.currentSession[1] ELSE NoSession
        updatedActions == <<actionRecord>> \o currentSession.actions
    IN ShowActionConfirmation(
         SetState([w EXCEPT !.nextId = @ + 1],
                  [currentSession |-> Some([currentSession EXCEPT !.actions = updatedActions])]))

SelectElement(w, element) ==
    LET actionRecord == ElementAction(w, element)
        currentSession == IF w.state.currentSession # Null
                          THEN w.state.currentSession[1] ELSE NoSession
        updatedActions == Append(currentSession.actions, actionRecord)
    IN ShowActionConfirmation(
         SetState([w EXCEPT !.nextId = @ + 1],
                  [currentSession |-> Some([currentSession EXCEPT !.actions = updatedActions])]))

\* handleClick: nothing unless the listeners are armed; an excluded target
\* (the tool's own UI) is not selected.
HandleClick(w, element) ==
    IF ~w.isSelectionMode THEN w
    ELSE IF element # NoElement /\ ~IsExcludedElement(element)
         THEN SelectElement(w, element)
         ELSE w

\* handleKeyDown with key = 'Escape'.
HandleKeyDown(w) ==
    IF ~w.isSelectionMode THEN w ELSE DisableSelectionMode(w)

\* The selector generatePlaywrightCode emits for an element action, by its
\* chain id > data-testid > class > text > xpath: <<selector>>, or <<>> when
\* the call throws a TypeError (className.split on an object that is not a
\* string, in the comment line it writes first).
SelectorTextLimit == 30

GeneratePlaywrightSelectorTextFirst(action) ==
    LET element == action.element
        className == element.className
    IN IF "animatedString" \in DOMAIN className THEN <<>>
       ELSE IF element.id # "" THEN <<"#" \o element.id>>
       ELSE IF element.textContent # ""
            THEN <<"text=\"" \o Substring0(element.textContent, SelectorTextLimit) \o "\"">>
       ELSE IF "data-testid" \in DOMAIN element.attributes
            THEN <<"[data-testid=\"" \o element.attributes["data-testid"] \o "\"]">>
       ELSE <<element.xpath>>

GeneratePlaywrightSelector(action) ==
    LET element == action.element
        className == element.className
        FirstClass(s) ==
            LET blanks == {i \in 1..Len(s) : SubSeq(s, i, i) = " "}
            IN IF blanks = {} THEN s
               ELSE SubSeq(s, 1, (CHOOSE i \in blanks : \A j \in blanks : i <= j) - 1)
    IN IF "animatedString" \in DOMAIN className THEN <<>>
       ELSE IF element.id # "" THEN <<"#" \o element.id>>
       ELSE IF "data-testid" \in DOMAIN element.attributes
            THEN <<"[data-testid=\"" \o element.attributes["data-testid"] \o "\"]">>
       ELSE IF className.string # "" THEN <<"." \o FirstClass(className.string)>>
       ELSE IF element.textContent # ""
            THEN <<"text=\"" \o Substring0(element.textContent, SelectorTextLimit) \o "\"">>
       ELSE <<element.xpath>>

\* ---------------------------------------------------- NetworkRequestMonitor
\* The functions the monitor puts in place of window.fetch and of
\* XMLHttpRequest.prototype.open and send.
FetchWrapper == "fetch wrapper"
OpenWrapper == "open wrapper"
SendWrapper == "send wrapper"

InterceptFetch(w) ==
    [w EXCEPT !.monitor.originalFetch = Some(w.monitor.fetch),
              !.monitor.fetch = FetchWrapper]

InterceptXHR(w) ==
    [w EXCEPT !.monitor.originalXHROpen = Some(w.monitor.open),
              !.monitor.originalXHRSend = Some(w.monitor.send),
              !.monitor.open = OpenWrapper,
              !.monitor.send = SendWrapper]

\* startMonitoring without the isMonitoring guard.
StartMonitoringAgain(w) ==
    InterceptXHR(InterceptFetch([w EXCEPT !.isMonitoring = TRUE,
                                          !.monitor.capturedRequests = <<>>]))

StartMonitoring(w) ==
    IF w.isMonitoring THEN w
    ELSE InterceptXHR(InterceptFetch([w EXCEPT !.isMonitoring = TRUE,
                                               !.monitor.capturedRequests = <<>>]))

StopMonitoring(w) ==
    IF ~w.isMonitoring THEN w
    ELSE LET a == [w EXCEPT !.isMonitoring = FALSE]
             b == IF a.monitor.originalFetch # Null
                  THEN [a EXCEPT !.monitor.fetch = a.monitor.originalFetch[1],
                                 !.monitor.originalFetch = Null]
                  ELSE a
         IN IF b.monitor.originalXHROpen # Null /\ b.monitor.originalXHRSend # Null
            THEN [b EXCEPT !.monitor.open = b.monitor.originalXHROpen[1],
                           !.monitor.send = b.monitor.originalXHRSend[1],
                           !.monitor.originalXHROpen = Null,
                           !.monitor.originalXHRSend = Null]
            ELSE b

\* shouldCaptureRequest: the method filter and the exclude patterns, of
\* which the requests drawn here meet the one on the file extension.
Methods == {"GET", "POST", "PUT", "DELETE", "PATCH"}

EndsWith(s, suffix) ==
    /\ Len(s) >= Len(suffix)
    /\ SubSeq(s, Len(s) - Len(suffix) + 1, Len(s)) = suffix

ShouldCaptureRequest(requestData) ==
    /\ requestData.method \in Methods
    /\ ~EndsWith(requestData.url, ".css")

\* The requestData of an intercepted call, reduced to what the action's notes
\* quote.
RequestData(method, url) == [method |-> method, url |-> url]

\* notifyRequestCaptured: setState({networkRequests: [...old, requestData]}).
NotifyRequestCaptured(w, requestData) ==
    [w EXCEPT !.networkRequests = Append(@, requestData)]

ClearCapturedRequests(w) == [w EXCEPT !.networkRequests = <<>>]

NetworkAction(id, t, actionType, requestData) ==
    [id |-> id, timestamp |-> t, type |-> actionType, networkRequest |-> requestData,
     notes |-> requestData.method \o " " \o requestData.url]

AddRequestToActions(w, requestData, actionType) ==
    LET actionRecord == NetworkAction(w.nextId, w.now, actionType, requestData)
        currentSession == IF w.state.currentSession # Null
                          THEN w.state.currentSession[1] ELSE NoSession
        updatedActions == Append(currentSession.actions, actionRecord)
    IN SetState([w EXCEPT !.nextId = @ + 1],
                [currentSession |-> Some([currentSession EXCEPT !.actions = updatedActions])])

\* --------------------------------------------------------- RecordingEngine
\* The name initializeSession and startSession give when none is passed:
\* `Session ${new Date().toLocaleString()}`.
DefaultName == "Session <date>"

NewSession(id, name, t) ==
    [id |-> id, name |-> name, startTime |-> t, endTime |-> NoTime, actions |-> <<>>]

\* initializeSession guarded by "no session yet": it would keep a retained session.
InitializeSessionIfNone(w) ==
    IF w.state.currentSession # Null
    THEN w
    ELSE SetState([w EXCEPT !.nextId = @ + 1],
                  [currentSession |-> Some(NewSession(w.nextId, DefaultName, w.now))])

InitializeSession(w) ==
    SetState([w EXCEPT !.nextId = @ + 1],
             [currentSession |-> Some(NewSession(w.nextId, DefaultName, w.now))])

StartManualSelection(w) ==
    LET a == InitializeSession(w)
        b == EnableSelectionMode(a)
        c == StartMonitoring(b)
    IN [c EXCEPT !.engineRecording = TRUE]

StartAutoRecording(w) ==
    LET a == InitializeSession(w)
        b == EnableSelectionMode(a)
        c == StartMonitoring(b)
    IN [c EXCEPT !.engineRecording = TRUE]

PauseRecording(w) == StopMonitoring(DisableSelectionMode(w))

\* stopRecording writing and keeping the session without stamping endTime.
StopRecordingNoStamp(w) ==
    LET a == StopMonitoring(DisableSelectionMode(w))
        b == [a EXCEPT !.engineRecording = FALSE]
    IN IF b.state.currentSession # Null
       THEN LET sessionData == b.state.currentSession[1]
            IN SetState(GMSetSession(b, sessionData),
                        [currentSession |-> Some(sessionData)])
       ELSE b

StopRecording(w) ==
    LET a == StopMonitoring(DisableSelectionMode(w))
        b == [a EXCEPT !.engineRecording = FALSE]
    IN IF b.state.currentSession # Null
       THEN LET sessionData == [b.state.currentSession[1] EXCEPT !.endTime = b.now]
            IN SetState(GMSetSession(b, sessionData),
                        [currentSession |-> Some(sessionData)])
       ELSE b

HandleModeChange(w, newMode, prevMode) ==
    LET w1 == [w EXCEPT !.recordingMode = newMode]
    IN CASE newMode = MANUAL_SELECTION -> StartManualSelection(w1)
         [] newMode = AUTO_RECORDING -> StartAutoRecording(w1)
         [] newMode = PAUSED -> PauseRecording(w1)
         [] newMode = INACTIVE -> StopRecording(w1)
         [] OTHER -> w1

\* ------------------------------------------------------------ EnscribeCore
\* Each method gives the world it ends in and the event it emits (none when
\* it returns early or throws).
NoEmit == [type |-> "", session |-> Null]
Emit(type, session) == [type |-> type, session |-> session]
Done(w, e, ret) == [w |-> w, emit |-> e, ret |-> ret]

SetRecordingMode(w, mode) ==
    IF mode \notin Modes
    THEN Done(w, NoEmit, NoId)
    ELSE Done(SetState(w, [mode |-> mode]), Emit("modeChanged", Null), NoId)

StartSession(w, name) ==
    LET sessionId == w.nextId
        sessionData == NewSession(sessionId, name, w.now)
        w1 == SetState([w EXCEPT !.nextId = @ + 1],
                       [currentSession |-> Some(sessionData), isRecording |-> TRUE,
                        mode |-> AUTO_RECORDING])
    IN Done(w1, Emit("sessionStarted", Some(sessionData)), sessionId)

StopSession(w) ==
    IF w.state.currentSession = Null
    THEN Done(w, NoEmit, NoId)
    ELSE LET sessionData == [w.state.currentSession[1] EXCEPT !.endTime = w.now]
             w1 == SetState(GMSetSession(w, sessionData),
                            [currentSession |-> Null, isRecording |-> FALSE,
                             mode |-> INACTIVE])
         IN Done(w1, Emit("sessionStopped", Some(sessionData)), NoId)

PauseSession(w) ==
    IF ~w.state.isRecording
    THEN Done(w, NoEmit, NoId)
    ELSE Done(SetState(w, [isPaused |-> TRUE, mode |-> PAUSED]),
              Emit("sessionPaused", Null), NoId)

ResumeSession(w) ==
    IF ~w.state.isPaused
    THEN Done(w, NoEmit, NoId)
    ELSE Done(SetState(w, [isPaused |-> FALSE, mode |-> AUTO_RECORDING]),
              Emit("sessionResumed", Null), NoId)

\* handleVisibilityChange with document.hidden = true.
HandleVisibilityChange(w) ==
    IF w.state.isRecording /\ ~w.state.isPaused
    THEN PauseSession(w)
    ELSE Done(w, NoEmit, NoId)

\* --------------------------------------------------------- RecordingEngine
ToggleRecording(w) ==
    IF w.state.mode = INACTIVE
    THEN SetState(w, [mode |-> MANUAL_SELECTION, isRecording |-> TRUE])
    ELSE SetState(w, [mode |-> INACTIVE, isRecording |-> FALSE])

\* --------------------------------------------------------------- UIManager
\* The panel's Start / Stop / Resume button.
HandleStartRecording(w) ==
    IF w.state.mode = INACTIVE THEN ToggleRecording(w)
    ELSE IF w.state.mode \in {MANUAL_SELECTION, AUTO_RECORDING} THEN ToggleRecording(w)
    ELSE IF w.state.mode = PAUSED
         THEN SetState(w, [mode |-> MANUAL_SELECTION, isPaused |-> FALSE])
         ELSE w

\* The Add button of the network-action dialog: addRequestToActions, then
\* the notes typed into the dialog, when not blank, replace the notes of the
\* last record.
AddNetworkAction(w, request, actionType, notes) ==
    LET a == AddRequestToActions(w, request, actionType)
    IN IF Trim(notes) # ""
          /\ a.state.currentSession # Null
          /\ Len(a.state.currentSession[1].actions) > 0
       THEN LET s == a.state.currentSession[1]
                last == Len(s.actions)
            IN SetState(a, [currentSession |->
                   Some([s EXCEPT !.actions = [@ EXCEPT ![last] =
                                                  [@ EXCEPT !.notes = notes]]])])
       ELSE a

\* editAction up to where the dialog is shown: the closure of its Save
\* handler holds the session and the index of that moment. Indices count
\* from 1 here.
EditAction(w, actionIndex) ==
    IF w.state.currentSession = Null
       \/ actionIndex > Len(w.state.currentSession[1].actions)
    THEN Null
    ELSE Some([session |-> w.state.currentSession[1], actionIndex |-> actionIndex])

\* The Save button of the edit dialog.
SaveActionFieldsOnly(w, dialog, type, value, notes) ==
    LET action == dialog.session.actions[dialog.actionIndex]
        updatedAction == [id |-> action.id, timestamp |-> action.timestamp,
                          type |-> type, value |-> value, notes |-> notes]
        updatedActions == [dialog.session.actions EXCEPT ![dialog.actionIndex] = updatedAction]
    IN SetState(w, [currentSession |->
                      Some([dialog.session EXCEPT !.actions = updatedActions])])

SaveAction(w, dialog, type, value, notes) ==
    LET action == dialog.session.actions[dialog.actionIndex]
        updatedAction == [type |-> type, value |-> value, notes |-> notes] @@ action
        updatedActions == [dialog.session.actions EXCEPT ![dialog.actionIndex] = updatedAction]
    IN SetState(w, [currentSession |->
                      Some([dialog.session EXCEPT !.actions = updatedActions])])

\* filter((_, index) => index !== actionIndex)
RemoveAt(s, i) == SubSeq(s, 1, i - 1) \o SubSeq(s, i + 1, Len(s))

DeleteAction(w, actionIndex, confirmed) ==
    IF w.state.currentSession = Null
       \/ actionIndex > Len(w.state.currentSession[1].actions)
    THEN w
    ELSE IF confirmed
         THEN SetState(w, [currentSession |->
                  Some([w.state.currentSession[1] EXCEPT
                          !.actions = RemoveAt(@, actionIndex)])])
         ELSE w

HandleClearActions(w, confirmed) ==
    IF w.state.currentSession = Null \/ Len(w.state.currentSession[1].actions) = 0
    THEN w
    ELSE IF confirmed
         THEN ClearCapturedRequests(
                SetState(w, [currentSession |->
                    Some([w.state.currentSession[1] EXCEPT !.actions = <<>>])]))
         ELSE w

\* ------------------------------------------------------------------- Init
InitState == [mode |-> INACTIVE, isRecording |-> FALSE, isPaused |-> FALSE,
              currentSession |-> Null]

Op(name, arg, ret) == [name |-> name, arg |-> arg, ret |-> ret]

InitProgram ==
    /\ state = InitState
    /\ isSelectionMode = FALSE
    /\ recordingMode = INACTIVE
    /\ engineRecording = FALSE
    /\ isMonitoring = FALSE
    /\ storage = <<>>
    /\ now = 0
    /\ nextId = 1
    /\ lastEmit = Emit("initialized", Null)
    /\ lastOp = Op("initialize", "", NoId)
    /\ pre = [state |-> InitState, isSelectionMode |-> FALSE, recordingMode |-> INACTIVE,
              engineRecording |-> FALSE, isMonitoring |-> FALSE]
    /\ pausedFrom = INACTIVE
    /\ highlight = FALSE
    /\ throttled = [executed |-> FALSE, pending |-> FALSE]
    /\ toasts = 0
    /\ networkRequests = <<>>
    /\ editDialog = Null
    /\ scenario = Null
    /\ notified = NoNotifications
    /\ closure = [timeoutId |-> NoTime, lastExecTime |-> 0, timerArgs |-> NoElement,
                  execTimes |-> <<>>, execArgs |-> NoElement, callArgs |-> NoElement]
    /\ monitor = [fetch |-> "fetch", open |-> "open", send |-> "send",
                  originalFetch |-> Null, originalXHROpen |-> Null,
                  originalXHRSend |-> Null, capturedRequests |-> <<>>,
                  inFlight |-> <<>>]

\* A page without further elements.
NoTree == [n \in {} |-> n]

\* The page's element "target" is an empty div and the page has no further
\* elements unless a specification says otherwise.
Init ==
    /\ InitProgram
    /\ tree = NoTree
    /\ target = PageElement(Facts("div", "", "", "", FALSE, <<>>, ""), HTML, "", "form")

\* The program's state as a call finds it.
Snapshot == [state |-> state, isSelectionMode |-> isSelectionMode,
             recordingMode |-> recordingMode, engineRecording |-> engineRecording,
             isMonitoring |-> isMonitoring]

\* One outermost call: the world it ends in, the event it emitted (NoEmit when
\* none), and the record of the call.
CommitMachine(w, op, emit) ==
    /\ state' = w.state
    /\ isSelectionMode' = w.isSelectionMode
    /\ recordingMode' = w.recordingMode
    /\ engineRecording' = w.engineRecording
    /\ isMonitoring' = w.isMonitoring
    /\ storage' = w.storage
    /\ nextId' = w.nextId
    /\ lastEmit' = emit
    /\ lastOp' = op
    /\ pre' = Snapshot
    /\ pausedFrom' = IF w.state.mode = PAUSED /\ state.mode # PAUSED
                      THEN state.mode ELSE pausedFrom

\* A call in the specification of the session machine, which leaves out what
\* the handlers draw on the page.
Commit(w, op, emit) ==
    /\ CommitMachine(w, op, emit)
    /\ UNCHANGED <<now, highlight, throttled, toasts, networkRequests, editDialog,
                   scenario, target, tree, notified, closure, monitor>>

CommitDone(d, name, arg) == Commit(d.w, Op(name, arg, d.ret), d.emit)

\* A call may generate ids only while the id supply lasts.
IdsLeft == nextId <= MaxIds

\* ---------------------------------------------------------------- actions
DoToggleRecording ==
    /\ IdsLeft
    /\ \E ok \in BOOLEAN :
         Commit(ToggleRecording([World EXCEPT !.saveOk = ok]),
                Op("toggleRecording", "", NoId), NoEmit)

DoHandleStartRecording ==
    /\ IdsLeft
    /\ \E ok \in BOOLEAN :
         Commit(HandleStartRecording([World EXCEPT !.saveOk = ok]),
                Op("handleStartRecording", "", NoId), NoEmit)

DoSetRecordingMode ==
    /\ IdsLeft
    /\ \E mode \in Modes \cup {BogusMode}, ok \in BOOLEAN :
         CommitDone(SetRecordingMode([World EXCEPT !.saveOk = ok], mode),
                    "setRecordingMode", mode)

DoStartSession ==
    /\ IdsLeft
    /\ \E name \in {DefaultName, "checkout"} :
         CommitDone(StartSession(World, name), "startSession", name)

DoStopSession ==
    \E ok \in BOOLEAN :
        CommitDone(StopSession([World EXCEPT !.saveOk = ok]), "stopSession", "")

DoPauseSession == CommitDone(PauseSession(World), "pauseSession", "")

DoResumeSession ==
    /\ IdsLeft
    /\ CommitDone(ResumeSession(World), "resumeSession", "")

DoHandleVisibilityChange ==
    CommitDone(HandleVisibilityChange(World), "handleVisibilityChange", "")

DoEnableSelectionMode ==
    /\ IdsLeft
    /\ Commit(EnableSelectionMode(World), Op("enableSelectionMode", "", NoId), NoEmit)

\* A click on the page while the capture listener may be attached.
DoHandleClick ==
    /\ IdsLeft
    /\ state.currentSession # Null => Len(state.currentSession[1].actions) < MaxActions
    /\ \E element \in {"button", "panel"} :
         Commit(HandleClick(World, element), Op("handleClick", element, NoId), NoEmit)

\* The Escape key.
DoHandleKeyDown ==
    Commit(HandleKeyDown(World), Op("handleKeyDown", "Escape", NoId), NoEmit)

\* Date.now() advances between calls.
Tick ==
    /\ now < MaxTime
    /\ now' = now + 1
    /\ UNCHANGED <<state, isSelectionMode, recordingMode, engineRecording, isMonitoring,
                   storage, nextId, lastEmit, lastOp, pre, pausedFrom,
                   highlight, throttled, toasts, networkRequests, editDialog, scenario,
                   target, tree, notified, closure, monitor>>

Next ==
    \/ DoToggleRecording
    \/ DoHandleStartRecording
    \/ DoSetRecordingMode
    \/ DoStartSession
    \/ DoStopSession
    \/ DoPauseSession
    \/ DoResumeSession
    \/ DoHandleVisibilityChange
    \/ DoEnableSelectionMode
    \/ DoHandleClick
    \/ DoHandleKeyDown
    \/ Tick

Spec == Init /\ [][Next]_vars

\* ------------------------------------------- the capture handlers on the page
\* The same calls, together with what they draw on the page, the mouse
\* events and the two timers (the throttle's and the toast's). Storage
\* writes succeed and the clock stands still here.
PageCommit(w, op, emit) ==
    /\ CommitMachine(w, op, emit)
    /\ highlight' = w.highlight
    /\ toasts' = w.toasts
    /\ UNCHANGED <<now, networkRequests, editDialog, scenario,
                   target, tree, notified, closure, monitor>>

PageCall(w, op, emit) == PageCommit(w, op, emit) /\ UNCHANGED throttled

PageCallDone(d, name, arg) == PageCall(d.w, Op(name, arg, d.ret), d.emit)

PageToggleRecording ==
    /\ IdsLeft
    /\ PageCall(ToggleRecording(World), Op("toggleRecording", "", NoId), NoEmit)

PageHandleStartRecording ==
    /\ IdsLeft
    /\ PageCall(HandleStartRecording(World), Op("handleStartRecording", "", NoId), NoEmit)

PageSetRecordingMode ==
    /\ IdsLeft
    /\ \E mode \in Modes :
         PageCallDone(SetRecordingMode(World, mode), "setRecordingMode", mode)

PageStopSession == PageCallDone(StopSession(World), "stopSession", "")

PagePauseSession == PageCallDone(PauseSession(World), "pauseSession", "")

PageResumeSession ==
    /\ IdsLeft
    /\ PageCallDone(ResumeSession(World), "resumeSession", "")

PageHandleKeyDown ==
    PageCall(HandleKeyDown(World), Op("handleKeyDown", "Escape", NoId), NoEmit)

\* What document.elementFromPoint can return for a mouse event: a page
\* element, the panel host, a dialog button, a toast while one is shown, or
\* nothing.
Targets == {"button", "panel", "dialogSave", NoElement}
              \cup (IF toasts > 0 THEN {"toast"} ELSE {})

\* The click listener wrapped in the throttle of the mousemove listener: a
\* click within 16 ms of the last run is put off to the timer.
PageHandleClickThrottled ==
    /\ IdsLeft
    /\ state.currentSession # Null => Len(state.currentSession[1].actions) < MaxActions
    /\ \E element \in Targets, visible \in BOOLEAN :
         IF throttled.executed
         THEN /\ PageCommit(World, Op("handleClick", element, NoId), NoEmit)
              /\ throttled' = [throttled EXCEPT !.pending = TRUE]
         ELSE /\ PageCommit(HandleClick([World EXCEPT !.visible = visible], element),
                            Op("handleClick", element, NoId), NoEmit)
              /\ throttled' = [throttled EXCEPT !.executed = TRUE]

\* A click anywhere on the page. The listener is attached while armed; the
\* handler returns at once otherwise.
PageHandleClick ==
    /\ IdsLeft
    /\ state.currentSession # Null => Len(state.currentSession[1].actions) < MaxActions
    /\ \E element \in Targets, visible \in BOOLEAN :
         PageCall(HandleClick([World EXCEPT !.visible = visible], element),
                  Op("handleClick", element, NoId), NoEmit)

\* The click event after the document's capture listener: handleClick, when
\* armed, prevents the default and stops the propagation before it looks at
\* the target.
DispatchedClick(armed) ==
    [defaultPrevented |-> armed, propagationStopped |-> armed]

\* A click on the panel's Start / Stop button. The document's capture
\* listener sees it first, with the panel host as the element under the
\* cursor; the button's own listener runs if the event still propagates.
ClickStartRecording(w) ==
    LET a == HandleClick(w, "panel")
    IN IF DispatchedClick(w.isSelectionMode).propagationStopped
       THEN a
       ELSE HandleStartRecording(a)

\* A mousemove reaching the throttled handler, which the document dispatches
\* only while the listener is attached. The call runs onMouseMove at once
\* when more than 16 ms passed since the last run (always so before the
\* first run), and otherwise replaces the pending timeout.
PageMouseMove ==
    /\ isSelectionMode
    /\ \E element \in Targets, visible \in BOOLEAN, defer \in BOOLEAN :
         /\ defer => throttled.executed
         /\ IF defer
            THEN /\ PageCommit(World, Op("mousemove", "deferred", NoId), NoEmit)
                 /\ throttled' = [throttled EXCEPT !.pending = TRUE]
            ELSE /\ PageCommit(OnMouseMove([World EXCEPT !.visible = visible], element),
                               Op("mousemove", element, NoId), NoEmit)
                 /\ throttled' = [throttled EXCEPT !.executed = TRUE]

\* The throttle's timeout fires and runs the deferred onMouseMove.
PageThrottleTimeout ==
    /\ throttled.pending
    /\ \E element \in Targets, visible \in BOOLEAN :
         /\ PageCommit(OnMouseMove([World EXCEPT !.visible = visible], element),
                       Op("throttleTimeout", element, NoId), NoEmit)
         /\ throttled' = [executed |-> TRUE, pending |-> FALSE]

\* The 2000 ms timeout of a confirmation toast fires.
PageConfirmationTimeout ==
    /\ toasts > 0
    /\ PageCall(ConfirmationTimeout(World), Op("confirmationTimeout", "", NoId), NoEmit)

CaptureNext ==
    \/ PageToggleRecording
    \/ PageHandleStartRecording
    \/ PageSetRecordingMode
    \/ PageStopSession
    \/ PagePauseSession
    \/ PageResumeSession
    \/ PageHandleKeyDown
    \/ PageHandleClick
    \/ PageMouseMove
    \/ PageThrottleTimeout
    \/ PageConfirmationTimeout

CaptureSpec == Init /\ [][CaptureNext]_vars

\* ------------------------------------------------- the action list and the panel
\* Recording (start, captures, Escape, stop), the requests the monitor
\* captures, and what the panel does to the action list: add a request, edit,
\* delete, clear. The panel and its dialogs get a click only while the
\* selector is disarmed: armed, handleClick stops every click at the document.
\* The history of calls is not kept here, storage writes succeed and the
\* clock stands still.
MaxRequests == 1

PanelCommit(w) ==
    /\ state' = w.state
    /\ isSelectionMode' = w.isSelectionMode
    /\ recordingMode' = w.recordingMode
    /\ engineRecording' = w.engineRecording
    /\ isMonitoring' = w.isMonitoring
    /\ storage' = w.storage
    /\ nextId' = w.nextId
    /\ networkRequests' = w.networkRequests
    /\ UNCHANGED <<now, lastEmit, lastOp, pre, pausedFrom, highlight, throttled, toasts,
                   scenario, target, tree, notified, closure, monitor>>

PanelCall(w) == PanelCommit(w) /\ UNCHANGED editDialog

PanelToggleRecording ==
    /\ IdsLeft
    /\ PanelCall(ToggleRecording(World))

PanelStopSession == PanelCall(StopSession(World).w)

PanelHandleKeyDown == PanelCall(HandleKeyDown(World))

PanelHandleClick ==
    /\ IdsLeft
    /\ state.currentSession # Null => Len(state.currentSession[1].actions) < MaxActions
    /\ \E element \in {"button", "panel"} : PanelCall(HandleClick(World, element))

\* The response of a fetch or XMLHttpRequest the page issued through the
\* monitor's wrappers arrives.
PanelRequestCaptured ==
    /\ isMonitoring
    /\ Len(networkRequests) < MaxRequests
    /\ PanelCall(NotifyRequestCaptured(World, RequestData("GET", "/api/cart")))

PanelAddNetworkAction ==
    /\ ~isSelectionMode
    /\ IdsLeft
    /\ state.currentSession # Null => Len(state.currentSession[1].actions) < MaxActions
    /\ \E i \in 1..Len(networkRequests), notes \in {"", "cart loaded"} :
         PanelCall(AddNetworkAction(World, networkRequests[i], "waitForResponse", notes))

PanelEditAction ==
    /\ ~isSelectionMode
    /\ editDialog = Null
    /\ \E actionIndex \in 1..MaxActions :
         /\ EditAction(World, actionIndex) # Null
         /\ PanelCommit(World)
         /\ editDialog' = EditAction(World, actionIndex)

PanelSaveAction ==
    /\ ~isSelectionMode
    /\ editDialog # Null
    /\ PanelCommit(SaveAction(World, editDialog[1], "hover", "edited", "checked by hand"))
    /\ editDialog' = Null

PanelCancelAction ==
    /\ ~isSelectionMode
    /\ editDialog # Null
    /\ PanelCommit(World)
    /\ editDialog' = Null

PanelDeleteAction ==
    /\ ~isSelectionMode
    /\ \E actionIndex \in 1..MaxActions, confirmed \in BOOLEAN :
         PanelCall(DeleteAction(World, actionIndex, confirmed))

PanelHandleClearActions ==
    /\ ~isSelectionMode
    /\ \E confirmed \in BOOLEAN : PanelCall(HandleClearActions(World, confirmed))

ActionsNext ==
    \/ PanelToggleRecording
    \/ PanelStopSession
    \/ PanelHandleKeyDown
    \/ PanelHandleClick
    \/ PanelRequestCaptured
    \/ PanelAddNetworkAction
    \/ PanelEditAction
    \/ PanelSaveAction
    \/ PanelCancelAction
    \/ PanelDeleteAction
    \/ PanelHandleClearActions

ActionsSpec == Init /\ [][ActionsNext]_vars

\* ------------------------------------------------ one recording, start to stop
\* start(manual), captures, stop, with the clock running and storage writes
\* that may throw. The history of the captures since a start(manual) issued
\* in Inactive is begun by that start, extended by each record a click
\* produces, kept over the stop that ends it, and dropped by any other call.
ScenarioAfter(op, w) ==
    IF op.name = "toggleRecording" /\ state.mode = INACTIVE
    THEN Some([stored |-> DOMAIN storage, captured |-> <<>>])
    ELSE IF scenario = Null \/ state.mode = INACTIVE THEN Null
    ELSE IF op.name = "handleClick"
         THEN Some([scenario[1] EXCEPT !.captured =
                      IF w.nextId # nextId
                      THEN Append(@, ElementAction(World, op.arg)) ELSE @])
    ELSE IF op.name \in {"toggleRecording", "stopSession"} THEN scenario
    ELSE Null

ScenarioCall(w, op, emit) ==
    /\ CommitMachine(w, op, emit)
    /\ scenario' = ScenarioAfter(op, w)
    /\ UNCHANGED <<now, highlight, throttled, toasts, networkRequests, editDialog, target, tree, notified, closure, monitor>>

Throws(ok) == IF ok THEN "" ELSE "storage throws"

ScenarioToggleRecording ==
    /\ IdsLeft \/ engineRecording
    /\ \E ok \in BOOLEAN :
         ScenarioCall(ToggleRecording([World EXCEPT !.saveOk = ok]),
                      Op("toggleRecording", Throws(ok), NoId), NoEmit)

ScenarioStopSession ==
    \E ok \in BOOLEAN :
        LET d == StopSession([World EXCEPT !.saveOk = ok])
        IN ScenarioCall(d.w, Op("stopSession", Throws(ok), d.ret), d.emit)

ScenarioHandleClick ==
    /\ IdsLeft
    /\ state.currentSession # Null => Len(state.currentSession[1].actions) < MaxActions
    /\ \E element \in {"button", "panel"} :
         ScenarioCall(HandleClick(World, element), Op("handleClick", element, NoId), NoEmit)

ScenarioHandleKeyDown ==
    ScenarioCall(HandleKeyDown(World), Op("handleKeyDown", "Escape", NoId), NoEmit)

ScenarioNext ==
    \/ ScenarioToggleRecording
    \/ ScenarioStopSession
    \/ ScenarioHandleClick
    \/ ScenarioHandleKeyDown
    \/ Tick

ScenarioSpec == Init /\ [][ScenarioNext]_vars

\* ------------------------------------------- classification of a captured element
\* A recording in which the clicked element "target" is an element of any
\* kind: its tag, type, value, placeholder, checked flag, selected options
\* and text are drawn at the start.
RECURSIVE Repeat(_, _)
Repeat(s, n) == IF n = 0 THEN "" ELSE s \o Repeat(s, n - 1)

InputTypes == TextInputTypes \cup CheckInputTypes \cup {"number", "submit", "file"}

\* Texts around the limit of 50 characters, with blanks to trim.
Texts == {"", "   ", " Buy now ", Repeat("x", 50), "  " \o Repeat("x", 51) \o " ",
          Repeat("y", 49) \o " z"}

FactsSet ==
    {Facts("input", type, value, placeholder, checked, <<>>, "") :
        type \in InputTypes, value \in {"", "alice"}, placeholder \in {"", "Your name"},
        checked \in BOOLEAN}
    \cup {Facts("textarea", "textarea", value, placeholder, FALSE, <<>>, value) :
        value \in {"", "hello"}, placeholder \in {"", "Your message"}}
    \cup {Facts("select", type, "", "", FALSE, selectedOptions, "RedBlue") :
        type \in {"select-one", "select-multiple"},
        selectedOptions \in {<<>>, <<"Red">>, <<"Red", "Blue">>}}
    \cup {Facts(tagName, IF tagName = "button" THEN "submit" ELSE "", "", "", FALSE, <<>>,
                textContent) :
        tagName \in {"button", "a", "div"}, textContent \in Texts}

ClassifyInit ==
    /\ InitProgram
    /\ \E facts \in FactsSet : target = PageElement(facts, HTML, "", "form")
    /\ tree = NoTree

ClassifyCall(w, op, emit) ==
    /\ CommitMachine(w, op, emit)
    /\ UNCHANGED <<now, highlight, throttled, toasts, networkRequests, editDialog,
                   scenario, target, tree, notified, closure, monitor>>

ClassifyToggleRecording ==
    /\ IdsLeft \/ engineRecording
    /\ ClassifyCall(ToggleRecording(World), Op("toggleRecording", "", NoId), NoEmit)

ClassifyHandleClick ==
    /\ IdsLeft
    /\ state.currentSession # Null => Len(state.currentSession[1].actions) < MaxActions
    /\ \E element \in {"target", "panel"} :
         ClassifyCall(HandleClick(World, element), Op("handleClick", element, NoId), NoEmit)

\* A click on an element whose getBoundingClientRect() throws.
ClassifyHandleClickNoBounds ==
    /\ IdsLeft
    /\ state.currentSession # Null => Len(state.currentSession[1].actions) < MaxActions
    /\ ClassifyCall(HandleClick([World EXCEPT !.bounds = <<>>], "target"),
                    Op("handleClick", "target", NoId), NoEmit)

ClassifyClickStartRecording ==
    /\ IdsLeft
    /\ ClassifyCall(ClickStartRecording(World),
                    Op("clickStartRecording", "panel", NoId), NoEmit)

ClassifyNext ==
    \/ ClassifyToggleRecording
    \/ ClassifyClickStartRecording
    \/ ClassifyHandleClick
    \/ ClassifyHandleClickNoBounds

ClassifySpec == ClassifyInit /\ [][ClassifyNext]_vars

\* ------------------------------------------------------------- notifications
\* The session machine with the listener calls of each outermost call kept.
NotifyCall(d, name, arg) ==
    /\ CommitMachine(d.w, Op(name, arg, d.ret), d.emit)
    /\ notified' = d.w.notified
    /\ UNCHANGED <<now, highlight, throttled, toasts, networkRequests, editDialog,
                   scenario, target, tree, closure, monitor>>

\* The world of a call during which the given listener throws ("": none).
Failing(listener) == [World EXCEPT !.notified.failing = listener]

NotifySetRecordingMode ==
    /\ IdsLeft
    /\ \E mode \in Modes :
         NotifyCall(SetRecordingMode(World, mode), "setRecordingMode", mode)

NotifyToggleRecording ==
    /\ IdsLeft
    /\ \E listener \in Listeners \cup {""} :
         NotifyCall(Done(ToggleRecording(Failing(listener)), NoEmit, NoId),
                    "toggleRecording", "")

NotifyHandleClick ==
    /\ IdsLeft
    /\ state.currentSession # Null => Len(state.currentSession[1].actions) < MaxActions
    /\ \E listener \in Listeners \cup {""} :
         NotifyCall(Done(HandleClick(Failing(listener), "button"), NoEmit, NoId),
                    "handleClick", "button")

NotifyStartSession ==
    /\ IdsLeft
    /\ NotifyCall(StartSession(World, DefaultName), "startSession", DefaultName)

NotifyStopSession == NotifyCall(StopSession(World), "stopSession", "")

NotifyNext ==
    \/ NotifySetRecordingMode
    \/ NotifyHandleClick
    \/ NotifyToggleRecording
    \/ NotifyStartSession
    \/ NotifyStopSession

NotifySpec == Init /\ [][NotifyNext]_vars

\* --------------------------------------------------------- network monitoring
\* The monitor against the page's requests: monitoring is switched by the
\* mode changes of the session machine and by direct calls, the page issues
\* requests through whatever function is in place, and a response arrives
\* some time after its request.
Requests == {RequestData("GET", "/api/cart"), RequestData("OPTIONS", "/api/cart"),
             RequestData("GET", "/site.css")}

\* The wrapper's part of a call of window.fetch (or of send on an
\* XMLHttpRequest): the requestData is built and the response handler set;
\* the original function issues the request.
WrappedCall(w, requestData) ==
    [w EXCEPT !.monitor.inFlight = Append(@, requestData)]

\* The response handler of a wrapped call (the then / catch of the fetch
\* promise, onreadystatechange at readyState 4).
ResponseHandler(w, i) ==
    LET requestData == w.monitor.inFlight[i]
        a == [w EXCEPT !.monitor.inFlight = RemoveAt(@, i)]
    IN IF ShouldCaptureRequest(requestData)
       THEN NotifyRequestCaptured(
                [a EXCEPT !.monitor.capturedRequests = Append(@, requestData)],
                requestData)
       ELSE a

MonitorCall(w, name, arg) ==
    /\ CommitMachine(w, Op(name, arg, NoId), NoEmit)
    /\ monitor' = w.monitor
    /\ networkRequests' = w.networkRequests
    /\ UNCHANGED <<now, highlight, throttled, toasts, editDialog,
                   scenario, target, tree, notified, closure>>

MonitorStartMonitoring == MonitorCall(StartMonitoring(World), "startMonitoring", "")

MonitorStopMonitoring == MonitorCall(StopMonitoring(World), "stopMonitoring", "")

MonitorSetRecordingMode ==
    /\ IdsLeft
    /\ \E mode \in Modes :
         MonitorCall(SetRecordingMode(World, mode).w, "setRecordingMode", mode)

\* The page calls window.fetch or sends an XMLHttpRequest.
MonitorRequest ==
    /\ Len(monitor.inFlight) + Len(networkRequests) <= MaxRequests
    /\ \E requestData \in Requests, type \in {"fetch", "xhr"} :
         LET wrapped == IF type = "fetch" THEN monitor.fetch = FetchWrapper
                        ELSE monitor.send = SendWrapper
         IN MonitorCall(IF wrapped THEN WrappedCall(World, requestData) ELSE World,
                        type, requestData.url)

MonitorResponse ==
    \E i \in 1..Len(monitor.inFlight) :
        MonitorCall(ResponseHandler(World, i), "response", monitor.inFlight[i].url)

MonitorNext ==
    \/ MonitorStartMonitoring
    \/ MonitorStopMonitoring
    \/ MonitorSetRecordingMode
    \/ MonitorRequest
    \/ MonitorResponse

MonitorSpec == Init /\ [][MonitorNext]_vars

\* ------------------------------------------------------------------ throttle
\* EnscribeUtils.throttle(onMouseMove, Delay) against the clock. Date.now()
\* counts from the epoch, so it is Epoch + now; closure.timeoutId is the
\* deadline of the pending timer, NoTime when none is pending.
Delay == 16
Epoch == 1000
MaxClock == 36
DateNow == Epoch + now

\* func.apply(this, args): onMouseMove runs for the event, and the time is
\* kept. The args are the mouse event, told apart by the element under the
\* cursor.
Apply(c, w, args) ==
    /\ highlight' = OnMouseMove(w, args).highlight
    /\ closure' = [c EXCEPT !.lastExecTime = DateNow,
                            !.execArgs = args,
                            !.execTimes = IF @ = <<>> THEN <<DateNow>>
                                          ELSE <<@[Len(@)], DateNow>>]

ThrottleUnchanged ==
    UNCHANGED <<state, isSelectionMode, recordingMode, engineRecording, isMonitoring,
                storage, nextId, lastEmit, lastOp, pre, pausedFrom,
                throttled, toasts, networkRequests, editDialog, scenario,
                target, tree, notified, monitor>>

\* A call of the function throttle() returned: run func, or clear the
\* pending timer and set a new one.
ThrottleCall ==
    \E args \in {"button", "panel"} :
        LET currentTime == DateNow
            c == [closure EXCEPT !.callArgs = args]
        IN /\ IF currentTime - closure.lastExecTime > Delay
              THEN Apply(c, World, args)
              ELSE /\ closure' = [c EXCEPT !.timeoutId =
                                     currentTime + (Delay - (currentTime - closure.lastExecTime)),
                                          !.timerArgs = args]
                   /\ UNCHANGED highlight
           /\ UNCHANGED now
           /\ ThrottleUnchanged

\* The pending timer fires, at its deadline or later.
ThrottleTimeout ==
    /\ closure.timeoutId # NoTime
    /\ DateNow >= closure.timeoutId
    /\ Apply([closure EXCEPT !.timeoutId = NoTime, !.timerArgs = NoElement], World,
             closure.timerArgs)
    /\ UNCHANGED now
    /\ ThrottleUnchanged

\* Time passes; a due timer need not fire first.
ThrottleTick ==
    /\ now < MaxClock
    /\ now' = now + 1
    /\ UNCHANGED <<highlight, closure, monitor>>
    /\ ThrottleUnchanged

ThrottleNext ==
    \/ ThrottleCall
    \/ ThrottleTimeout
    \/ ThrottleTick

ThrottleSpec == Init /\ [][ThrottleNext]_vars

\* ------------------------------------------------------- trees and selectors
\* A recording on a page with further elements below body. The trees are of
\* two kinds: every shape of MaxNodes divs and spans without attributes; and
\* a row of elements whose first carries any combination of id, data-testid,
\* class and text, as an HTML button or an SVG icon, next to a second that
\* is a copy of it or a bare button.
TreeNodes == {TreeNodeNames[i] : i \in 1..MaxNodes}

TreeElement(tagName, parent, id, class, testid, textContent, namespaceURI) ==
    [tagName |-> tagName, parent |-> parent, id |-> id, class |-> class,
     testid |-> testid, textContent |-> textContent, namespaceURI |-> namespaceURI]

Trees ==
    LET Named(f) == [n \in TreeNodes |->
                       f[CHOOSE i \in 1..MaxNodes : TreeNodeNames[i] = n]]
        Parents == {p \in [1..MaxNodes -> 0..MaxNodes] : \A i \in 1..MaxNodes : p[i] < i}
        Shapes == {[i \in 1..MaxNodes |->
                      TreeElement(tags[i],
                                  IF p[i] = 0 THEN "body" ELSE TreeNodeNames[p[i]],
                                  "", "", "", "", HTML)] :
                   tags \in [1..MaxNodes -> {"div", "span"}], p \in Parents}
        Firsts == {TreeElement(IF ns = HTML THEN "button" ELSE "svg", "body",
                               id, class, testid, textContent, ns) :
                   id \in {"", "save"}, class \in {"", "btn primary"},
                   testid \in {"", "submit-btn"}, textContent \in {"", " Submit "},
                   ns \in {HTML, SVG}}
        Rows == {[i \in 1..MaxNodes |->
                    IF i = 1 THEN first
                    ELSE IF i = 2 /\ copy THEN first
                    ELSE TreeElement("button", "body", "", "", "", "", HTML)] :
                 first \in Firsts, copy \in BOOLEAN}
    IN {Named(f) : f \in Shapes \cup Rows}

TreeInit ==
    /\ InitProgram
    /\ target = PageElement(Facts("div", "", "", "", FALSE, <<>>, ""), HTML, "", "form")
    /\ tree \in Trees

TreeHandleClick ==
    /\ IdsLeft
    /\ state.currentSession # Null => Len(state.currentSession[1].actions) < MaxActions
    /\ \E element \in DOMAIN tree :
         ClassifyCall(HandleClick(World, element), Op("handleClick", element, NoId), NoEmit)

TreeNext ==
    \/ ClassifyToggleRecording
    \/ TreeHandleClick

TreeSpec == TreeInit /\ [][TreeNext]_vars

\* ----------------------------------------------- the page changing after a capture
\* A recording on a page whose script keeps changing the captured element:
\* an HTML div or an SVG icon whose class attribute and text are rewritten,
\* and which is removed from the tree and appended again.
Classes == {"icon", "icon active"}
ElementTexts == {"", " Buy now "}

SnapshotInit ==
    /\ InitProgram
    /\ tree = NoTree
    /\ \E class \in Classes, textContent \in ElementTexts :
         \/ target = PageElement(Facts("div", "", "", "", FALSE, <<>>, textContent),
                                 HTML, class, "form")
         \/ target = PageElement(Facts("svg", "", "", "", FALSE, <<>>, textContent),
                                 SVG, class, "form")

SnapshotToggleRecording ==
    /\ IdsLeft \/ engineRecording
    /\ ClassifyCall(ToggleRecording(World), Op("toggleRecording", "", NoId), NoEmit)

\* A click lands on an element that is in the tree.
SnapshotHandleClick ==
    /\ IdsLeft
    /\ state.currentSession # Null => Len(state.currentSession[1].actions) < MaxActions
    /\ target.parent # NoElement
    /\ ClassifyCall(HandleClick(World, "target"), Op("handleClick", "target", NoId), NoEmit)

\* The page's script: element.setAttribute('class', class)
SetClassAttribute ==
    /\ \E class \in Classes \ {target.class} : target' = [target EXCEPT !.class = class]
    /\ UNCHANGED <<machineVars, now, pageVars, panelVars, scenario, tree, notified, closure, monitor>>

\* The page's script: element.textContent = textContent
SetTextContent ==
    /\ \E textContent \in ElementTexts \ {target.textContent} :
         target' = [target EXCEPT !.textContent = textContent]
    /\ UNCHANGED <<machineVars, now, pageVars, panelVars, scenario, tree, notified, closure, monitor>>

\* The page's script: element.remove()
RemoveElement ==
    /\ target.parent # NoElement
    /\ target' = [target EXCEPT !.parent = NoElement]
    /\ UNCHANGED <<machineVars, now, pageVars, panelVars, scenario, tree, notified, closure, monitor>>

\* The page's script: form.appendChild(element)
AppendElement ==
    /\ target.parent = NoElement
    /\ target' = [target EXCEPT !.parent = "form"]
    /\ UNCHANGED <<machineVars, now, pageVars, panelVars, scenario, tree, notified, closure, monitor>>

SnapshotNext ==
    \/ SnapshotToggleRecording
    \/ SnapshotHandleClick
    \/ SetClassAttribute
    \/ SetTextContent
    \/ RemoveElement
    \/ AppendElement

SnapshotSpec == SnapshotInit /\ [][SnapshotNext]_vars

\* ------------------------------------------------------------------ claims
ActiveModes == {AUTO_RECORDING, MANUAL_SELECTION}
HasSession(st) == st.currentSession # Null
Session(st) == st.currentSession[1]
IsOpen(st) == HasSession(st) /\ Session(st).endTime = NoTime

\* The last call was a stop: toggleRecording, stopSession or
\* setRecordingMode('inactive'), issued in a state other than Inactive.
IsStop ==
    /\ pre.state.mode # INACTIVE
    /\ \/ lastOp.name \in {"toggleRecording", "stopSession"}
       \/ lastOp.name = "setRecordingMode" /\ lastOp.arg = INACTIVE

\* The session a stop closed: stopSession hands it to the sessionStopped
\* event, the engine's stopRecording keeps it as the current session.
StoppedSession ==
    IF lastOp.name = "stopSession" THEN lastEmit.session ELSE state.currentSession

\* The last call was a resume: resumeSession or the panel's Resume button.
IsResume ==
    /\ pre.state.mode = PAUSED
    /\ lastOp.name \in {"resumeSession", "handleStartRecording"}

\* C1: a stop issued in any state other than Inactive ends in Inactive, with
\* the session that was current stamped with an endTime and holding as many
\* action records as before the stop.
C1_StopYieldsInactive ==
    IsStop =>
        /\ state.mode = INACTIVE
        /\ HasSession(pre.state) =>
             /\ StoppedSession # Null
             /\ StoppedSession[1].id = Session(pre.state).id
             /\ StoppedSession[1].endTime # NoTime
             /\ Len(StoppedSession[1].actions) = Len(Session(pre.state).actions)

\* C2: after a pause and then a resume the current session is the session
\* that was paused: same id and startTime, no endTime, the same action list.
C2_PauseResumeKeepsSession ==
    (IsResume /\ pre.state.isPaused /\ IsOpen(pre.state)) =>
        state.currentSession = pre.state.currentSession

\* C3: switching between the two active modes with setRecordingMode leaves
\* the current session (id, startTime, action list) unchanged.
C3_SwitchModeKeepsSession ==
    (/\ lastOp.name = "setRecordingMode"
     /\ pre.state.mode \in ActiveModes
     /\ lastOp.arg \in ActiveModes
     /\ lastOp.arg # pre.state.mode) =>
        state.currentSession = pre.state.currentSession

\* The last call was start(auto) issued while Inactive.
IsStartAuto ==
    /\ pre.state.mode = INACTIVE
    /\ \/ lastOp.name = "startSession"
       \/ lastOp.name = "setRecordingMode" /\ lastOp.arg = AUTO_RECORDING

\* C4: start(auto) from Inactive ends in AutoRecording, a session open and
\* capture armed.
C4_StartAutoEndsInAuto ==
    IsStartAuto =>
        /\ state.mode = AUTO_RECORDING
        /\ IsOpen(state)
        /\ isSelectionMode

\* The last call was start(manual) issued while Inactive.
IsStartManual ==
    /\ pre.state.mode = INACTIVE
    /\ lastOp.name \in {"toggleRecording", "handleStartRecording"}

\* C5: start(manual) from Inactive ends in ManualSelection with a new open
\* session (an id no earlier session had, no actions, no endTime) and the
\* capture listeners attached.
C5_StartManualOpensNewSession ==
    IsStartManual =>
        /\ state.mode = MANUAL_SELECTION
        /\ IsOpen(state)
        /\ Session(state).actions = <<>>
        /\ Session(state).id \notin DOMAIN storage
        /\ HasSession(pre.state) => Session(state).id # Session(pre.state).id
        /\ isSelectionMode

C5_Witness ==
    /\ IsStartManual
    /\ HasSession(pre.state)
    /\ Len(Session(pre.state).actions) > 0
    /\ state.mode = MANUAL_SELECTION

\* C6: resume from Paused returns to the active mode the machine was paused
\* in, with capture re-armed.
C6_ResumeRestoresMode ==
    (IsResume /\ pre.state.isPaused /\ pausedFrom \in ActiveModes) =>
        /\ state.mode = pausedFrom
        /\ isSelectionMode

\* The last call was a pause (pauseSession, or the page becoming hidden)
\* issued in an active mode.
IsPause ==
    /\ pre.state.mode \in ActiveModes
    /\ lastOp.name \in {"pauseSession", "handleVisibilityChange"}

\* C7: a pause issued in AutoRecording or ManualSelection ends in Paused with
\* capture disarmed, whichever call started the recording.
C7_PauseYieldsPaused ==
    IsPause =>
        /\ state.mode = PAUSED
        /\ ~isSelectionMode

\* C8: resumeSession while Inactive changes nothing.
C8_ResumeInactiveRejected ==
    (lastOp.name = "resumeSession" /\ pre.state.mode = INACTIVE) => Snapshot = pre

\* The last call was a lifecycle event the transition table does not list
\* for the state it was issued in.
IsInvalidTransition ==
    \/ lastOp.name = "pauseSession" /\ pre.state.mode = INACTIVE
    \/ lastOp.name = "stopSession" /\ pre.state.mode = INACTIVE
    \/ lastOp.name = "startSession" /\ pre.state.mode # INACTIVE
    \/ lastOp.name = "setRecordingMode" /\ lastOp.arg = PAUSED /\ pre.state.mode = INACTIVE
    \/ lastOp.name = "setRecordingMode" /\ lastOp.arg \notin Modes

\* C9: an event that is illegal for the current state leaves the state
\* unchanged: same mode, flags, current session and actions.
C9_InvalidTransitionRejected ==
    IsInvalidTransition => Snapshot = pre

\* C10: whenever the mode is not Inactive, a session is current and open.
C10_ActiveImpliesOpenSession ==
    state.mode # INACTIVE => IsOpen(state)

\* C11: after a stop (toggleRecording, stopSession, setRecordingMode('inactive'))
\* the stopped session stays the current session, with its actions and endTime.
C11_StoppedSessionRetained ==
    (IsStop /\ HasSession(pre.state)) =>
        /\ HasSession(state)
        /\ Session(state).id = Session(pre.state).id
        /\ Session(state).actions = Session(pre.state).actions
        /\ Session(state).endTime # NoTime

\* The steps of element capture: a click, a mousemove, and the two timer
\* callbacks (the throttle's deferred mousemove, the toast's timeout).
CaptureSteps == {"handleClick", "mousemove", "throttleTimeout", "confirmationTimeout"}

\* The last call was a pause issued in one of the two active modes.
IsPauseCall ==
    /\ pre.state.mode \in ActiveModes
    /\ \/ lastOp.name \in {"pauseSession", "handleVisibilityChange"}
       \/ lastOp.name = "setRecordingMode" /\ lastOp.arg = PAUSED

\* While the selector is disarmed no capture step appends an action record
\* or shows the hover highlight.
DisarmedCaptureIsInert ==
    /\ ~isSelectionMode => ~highlight
    /\ (lastOp.name \in CaptureSteps /\ ~pre.isSelectionMode) =>
         /\ state.currentSession = pre.state.currentSession
         /\ ~isSelectionMode

\* C12: once a pause or stop has returned the selector is disarmed, and from
\* then until it is armed again neither a click, a mousemove nor a pending
\* timer callback appends an action record or shows the hover highlight.
C12_DisarmComplete ==
    /\ (IsStop \/ IsPauseCall) => ~isSelectionMode
    /\ DisarmedCaptureIsInert

\* A step of the capture pipeline in the specification of the action list:
\* a click handled by the selector, or a request added from the panel's list.
IsCaptureStep == PanelHandleClick \/ PanelAddNetworkAction

\* C13: once a session is stamped with endTime, no step of the capture
\* pipeline (selectElement, addRequestToActions) changes its action list.
C13_ClosedSessionImmutable ==
    [][(/\ HasSession(state)
        /\ Session(state).endTime # NoTime
        /\ IsCaptureStep
        /\ HasSession(state')
        /\ Session(state').id = Session(state).id) =>
            Session(state').actions = Session(state).actions]_vars

\* The action list a call found: empty when there was no session.
ActionsOf(st) == IF HasSession(st) THEN Session(st).actions ELSE <<>>

\* The last call was a click the armed selector took for a capture.
IsCapture ==
    /\ lastOp.name = "handleClick"
    /\ pre.isSelectionMode
    /\ ~IsExcludedElement(lastOp.arg)

\* C14: a capture appends exactly one record at the end of the current
\* session's action list and leaves the earlier records as they were; the
\* session a stop writes to storage lists the records in that same order.
C14_RecordingOrderPreserved ==
    /\ IsCapture =>
         /\ HasSession(state)
         /\ Len(Session(state).actions) = Len(ActionsOf(pre.state)) + 1
         /\ SubSeq(Session(state).actions, 1, Len(ActionsOf(pre.state)))
              = ActionsOf(pre.state)
         /\ \A i \in 1..Len(ActionsOf(pre.state)) :
              ActionsOf(pre.state)[i].id # Session(state).actions[Len(Session(state).actions)].id
    /\ (IsStop /\ HasSession(pre.state) /\ Session(pre.state).id \in DOMAIN storage) =>
         storage[Session(pre.state).id].actions = Session(pre.state).actions

\* Two captures, then a stop that wrote the session.
C14_Witness ==
    /\ IsStop
    /\ HasSession(pre.state)
    /\ Len(Session(pre.state).actions) = 2
    /\ Session(pre.state).actions[1].id < Session(pre.state).actions[2].id
    /\ Session(pre.state).id \in DOMAIN storage

\* The last call was the stop that ends a recording begun by start(manual) in
\* Inactive, with nothing but clicks in between.
ScenarioStopped ==
    /\ scenario # Null
    /\ lastOp.name \in {"toggleRecording", "stopSession"}
    /\ state.mode = INACTIVE

\* The sessions in storage that were not there at the start.
Persisted == DOMAIN storage \ scenario[1].stored

OneClosedSessionPersisted ==
    /\ Cardinality(Persisted) = 1
    /\ \A id \in Persisted :
         /\ storage[id].id = id
         /\ storage[id].endTime # NoTime
         /\ storage[id].endTime >= storage[id].startTime
         /\ storage[id].actions = scenario[1].captured

C16_SelfExclusionAirtight ==
    (/\ lastOp.name = "handleClick"
     /\ pre.isSelectionMode
     /\ lastOp.arg \in InjectedNodes) =>
        /\ IsExcludedElement(lastOp.arg)
        /\ state.currentSession = pre.state.currentSession

\* C17: while capture is armed, a click on an element that is not excluded
\* appends exactly one record within the click handler, whatever the state
\* of the mousemove throttle; a mousemove or a timer callback appends none.
C17_ClickNeverThrottled ==
    /\ (/\ lastOp.name = "handleClick"
        /\ pre.isSelectionMode
        /\ ~IsExcludedElement(lastOp.arg)) =>
          /\ HasSession(state)
          /\ Len(Session(state).actions) = Len(ActionsOf(pre.state)) + 1
          /\ SubSeq(Session(state).actions, 1, Len(ActionsOf(pre.state)))
               = ActionsOf(pre.state)
    /\ lastOp.name \in {"mousemove", "throttleTimeout", "confirmationTimeout"} =>
          state.currentSession = pre.state.currentSession

\* A click captured while a deferred mousemove is waiting for its timer.
C17_Witness ==
    /\ lastOp.name = "handleClick"
    /\ pre.isSelectionMode
    /\ ~IsExcludedElement(lastOp.arg)
    /\ throttled.pending
    /\ Len(Session(state).actions) = 2

\* The record the last call appended.
LastRecord == Session(state).actions[Len(Session(state).actions)]

\* The last call captured the element "target".
IsTargetCapture == IsCapture /\ lastOp.arg = "target"

\* C18: every capture of an element yields a record whose type and value
\* follow the table: text-like input -> 'input' with the field value, else
\* the placeholder; checkbox or radio -> 'check' with 'checked'/'unchecked';
\* select -> 'select' with the text of the selected option; textarea ->
\* 'input'; anything else -> 'click' with the trimmed text cut to 50
\* characters.
C18_ClassifyFollowsTable ==
    IsTargetCapture =>
        /\ HasSession(state)
        /\ Len(Session(state).actions) = Len(ActionsOf(pre.state)) + 1
        /\ LET r == LastRecord
               text == Trim(target.textContent)
           IN CASE target.tagName = "input"
                     /\ target.type \in {"text", "email", "password", "search", "tel", "url"} ->
                       /\ r.type = "input"
                       /\ r.value = (IF target.value # "" THEN target.value
                                                        ELSE target.placeholder)
                [] target.tagName = "input" /\ target.type \in {"checkbox", "radio"} ->
                       /\ r.type = "check"
                       /\ target.checked => r.value = "checked"
                       /\ ~target.checked => r.value = "unchecked"
                [] target.tagName = "select" ->
                       /\ r.type = "select"
                       /\ target.selectedOptions # <<>> => r.value = target.selectedOptions[1]
                [] target.tagName = "textarea" -> r.type = "input"
                [] OTHER ->
                       /\ r.type = "click"
                       /\ Len(r.value) <= 50
                       /\ Len(r.value) = (IF Len(text) < 50 THEN Len(text) ELSE 50)
                       /\ r.value = SubSeq(text, 1, Len(r.value))

\* A capture of an element whose trimmed text is longer than 50 characters.
C18_Witness ==
    /\ IsTargetCapture
    /\ target.tagName = "div"
    /\ Len(target.textContent) > 52
    /\ Len(LastRecord.value) = 50

\* The record has element facts, or a network-request payload, and not both.
OneCaptureSource(r) == ("element" \in DOMAIN r) # ("networkRequest" \in DOMAIN r)

\* Every session the program holds: the current one, the one an open edit
\* dialog captured, and the stored ones.
AllSessions ==
    (IF HasSession(state) THEN {Session(state)} ELSE {})
    \cup (IF editDialog # Null THEN {editDialog[1].session} ELSE {})
    \cup {storage[id] : id \in DOMAIN storage}

\* C19: every action record of every session has exactly one capture
\* source, element facts or a network request, after any sequence of
\* captures, network additions, edits and deletes.
C19_ExactlyOneCaptureSource ==
    \A s \in AllSessions : \A i \in 1..Len(s.actions) : OneCaptureSource(s.actions[i])

\* A session holding an edited network record next to a captured element.
C19_Witness ==
    /\ HasSession(state)
    /\ \E i, j \in 1..Len(Session(state).actions) :
         /\ "networkRequest" \in DOMAIN Session(state).actions[i]
         /\ Session(state).actions[i].type = "hover"
         /\ "element" \in DOMAIN Session(state).actions[j]

\* What reading the value of a record's className gives now: the string the
\* record holds, or the baseVal of the SVGAnimatedString it refers to.
ReadClassName(className) ==
    IF "animatedString" \in DOMAIN className
    THEN Dom[className.animatedString].className
    ELSE className.string

\* What reading the captured element facts of the session's records gives.
RecordsRead ==
    [i \in 1..Len(ActionsOf(state)) |->
       LET element == ActionsOf(state)[i].element
       IN [element EXCEPT !.className = ReadClassName(@)]]

\* C20: a record holds a snapshot: a change of the captured element's
\* attributes or text, or its removal from the tree, changes no field read
\* from a stored record.
C20_RecordIsSnapshot ==
    [][target' # target => RecordsRead' = RecordsRead]_vars

\* The selector the export chooses for the record of the last capture:
\* <<selector>>, or <<>> when the export throws.
Chosen == GeneratePlaywrightSelector(LastRecord)

\* The strategy kind of a selector, read off its first characters.
SelectorKind(selector) ==
    IF SubSeq(selector, 1, 1) \in {"#", "."} THEN "Css"
    ELSE IF SubSeq(selector, 1, 1) = "[" THEN "DataAttribute"
    ELSE IF SubSeq(selector, 1, 1) = "/" THEN "XPath"
    ELSE "TextBased"

\* DataAttribute > Css > XPath > TextBased
Rank(kind) ==
    CASE kind = "DataAttribute" -> 1 [] kind = "Css" -> 2 [] kind = "XPath" -> 3
      [] kind = "TextBased" -> 4

\* The kinds of selector the captured element offers a candidate of.
OfferedKinds(element) ==
    (IF "data-testid" \in DOMAIN element.attributes THEN {"DataAttribute"} ELSE {})
    \cup (IF DOMAIN element.attributes \cap {"id", "class"} # {} THEN {"Css"} ELSE {})
    \cup {"XPath"}
    \cup (IF element.textContent # "" THEN {"TextBased"} ELSE {})

\* C21: the selector chosen for a captured element follows the priority
\* DataAttribute > Css > XPath > TextBased: an element with a data-testid
\* attribute gets the data-attribute selector, and a kind of lower priority
\* is chosen only when the element offers no candidate of a higher one.
C21_BestSelectorFollowsPriority ==
    IsCapture =>
        LET element == LastRecord.element
        IN /\ Chosen # <<>>
           /\ "data-testid" \in DOMAIN element.attributes =>
                  Chosen[1] = "[data-testid=\"" \o element.attributes["data-testid"] \o "\"]"
           /\ \A kind \in OfferedKinds(element) : Rank(SelectorKind(Chosen[1])) <= Rank(kind)

PresentElements ==
    ({ElementOrder[i] : i \in 1..Len(ElementOrder)} \cap DOMAIN Dom)
    \ ((IF toasts = 0 THEN {"toast"} ELSE {})
        \cup (IF editDialog = Null THEN {"dialog", "dialogContent", "dialogSave"} ELSE {}))

\* The child elements of a node with a given tag, in document order.
ChildrenWithTag(parent, tag) ==
    LET IsChild(n) == /\ n \in PresentElements
                      /\ Dom[n].parent = parent
                      /\ ElementFacts(n).tagName = tag
    IN SelectSeq(ElementOrder, IsChild)

RECURSIVE Evaluate(_, _)
\* The nodes a positional path selects from a set of context nodes: a step
\* `tag` selects every child with that tag, `tag[k]` the k-th such child.
Evaluate(parts, context) ==
    IF parts = <<>> THEN context
    ELSE LET part == Head(parts)
             Step(node) ==
                 LET children == ChildrenWithTag(node, part.tag)
                 IN IF "index" \in DOMAIN part
                    THEN IF part.index <= Len(children) THEN {children[part.index]} ELSE {}
                    ELSE {children[i] : i \in 1..Len(children)}
         IN Evaluate(Tail(parts), UNION {Step(node) : node \in context})

\* The class attribute s lists the class name c.
HasClass(s, c) ==
    \E i \in 1..Len(s) :
        LET j == i + Len(c) - 1
        IN /\ j <= Len(s)
           /\ SubSeq(s, i, j) = c
           /\ i = 1 \/ SubSeq(s, i - 1, i - 1) = " "
           /\ j = Len(s) \/ SubSeq(s, j + 1, j + 1) = " "

\* The nodes the selector chosen for the last capture resolves to in the
\* document: by id, by data-testid, by class name, by exact text, or by
\* evaluating the positional path.
Resolve ==
    LET selector == Chosen[1]
        first == SubSeq(selector, 1, 1)
    IN CASE first = "#" ->
              {n \in PresentElements : Dom[n].id = SubSeq(selector, 2, Len(selector))}
         [] first = "[" ->
              {n \in PresentElements :
                 GetAttribute(n, "data-testid") = SubSeq(selector, 15, Len(selector) - 2)}
         [] first = "." ->
              {n \in PresentElements :
                 HasClass(Dom[n].className, SubSeq(selector, 2, Len(selector)))}
         [] first = "t" ->
              {n \in PresentElements :
                 Trim(ElementFacts(n).textContent) = SubSeq(selector, 7, Len(selector) - 1)}
         [] OTHER -> Evaluate(XPathParts(lastOp.arg), {Document})

\* C23: the selector the export emits for a captured element resolves, in
\* the tree as it was at capture time, to exactly that element.
C23_BestSelectorSound ==
    (IsCapture /\ Chosen # <<>>) => Resolve = {lastOp.arg}

\* C24: for an element without an id, the path generateXPath returns,
\* evaluated from the document root, selects exactly that element.
C24_PositionalXPathUnique ==
    (IsCapture /\ LastRecord.element.id = "") =>
        /\ LastRecord.element.xpath = JoinParts(XPathParts(lastOp.arg))
        /\ Evaluate(XPathParts(lastOp.arg), {Document}) = {lastOp.arg}

\* C25: every capture of an element produces a record with a non-empty
\* selector: the xpath generateXPath returned is not the empty string, and
\* the selector the export chooses for the record is not the empty string.
C25_SelectorExists ==
    IsCapture =>
        /\ LastRecord.element.xpath # ""
        /\ LastRecord.element.xpath = GenerateXPath(lastOp.arg)
        /\ Chosen # <<>> => Chosen[1] # ""

\* A captured element without id, data-testid, class or text below another
\* element: the export falls back to its positional path.
C25_Witness ==
    /\ IsCapture
    /\ DOMAIN LastRecord.element.attributes = {}
    /\ LastRecord.element.textContent = ""
    /\ Dom[lastOp.arg].parent # "body"
    /\ Chosen = <<LastRecord.element.xpath>>

Last(s) == s[Len(s)]

\* The position a part of the path states: k for `tag[k]`, 1 for `tag`.
PartIndex(part) == IF "index" \in DOMAIN part THEN part.index ELSE 1

\* The position of an element in document order.
OrderOf(n) == CHOOSE i \in 1..Len(ElementOrder) : ElementOrder[i] = n

\* The elements of the tree that share parent and tag with n.
SameTagSiblings(n) ==
    {s \in DOMAIN tree : /\ tree[s].parent = tree[n].parent
                         /\ tree[s].tagName = tree[n].tagName}

\* C29: at each level the index generateXPath computes is 1 + the number of
\* preceding element siblings with the same tag, written only when above 1;
\* for two siblings with the same tag the indices differ by the number of
\* same-tag siblings from one to the other, so no two get the same index.
C29_PositionalIndex ==
    (IsCapture /\ LastRecord.element.id = "") =>
      LET a == lastOp.arg
      IN
        /\ LastRecord.element.xpath = JoinParts(XPathParts(a))
        /\ PartIndex(XPathPart(a)) =
              1 + Cardinality({s \in PresentElements :
                                 /\ Dom[s].parent = Dom[a].parent
                                 /\ ElementFacts(s).tagName = ElementFacts(a).tagName
                                 /\ OrderOf(s) < OrderOf(a)})
        /\ "index" \in DOMAIN XPathPart(a) <=> PartIndex(XPathPart(a)) > 1
        /\ \A b \in SameTagSiblings(a) :
              OrderOf(a) < OrderOf(b) =>
                 /\ Last(XPathParts(b)) = XPathPart(b)
                 /\ PartIndex(XPathPart(b)) - PartIndex(XPathPart(a)) =
                       Cardinality({s \in SameTagSiblings(a) :
                                      OrderOf(a) < OrderOf(s) /\ OrderOf(s) <= OrderOf(b)})
                 /\ PartIndex(XPathPart(b)) # PartIndex(XPathPart(a))

\* The third of three sibling divs was captured; its path ends in div[3].
C29_Witness ==
    /\ IsCapture
    /\ lastOp.arg = "e3"
    /\ LastRecord.element.xpath = "/html/body/div[3]"

\* C28: when the bounds query on the captured element throws, the capture
\* still completes and appends its record, with the zero rectangle as
\* position and isVisible = false.
C28_GeometryUnavailableRecovered ==
    [][(ClassifyHandleClickNoBounds /\ isSelectionMode) =>
         /\ HasSession(state')
         /\ Len(ActionsOf(state')) = Len(ActionsOf(state)) + 1
         /\ LET element == ActionsOf(state')[Len(ActionsOf(state'))].element
            IN /\ element.position = [x |-> 0, y |-> 0, width |-> 0, height |-> 0]
               /\ element.isVisible = FALSE]_vars

\* A capture recorded the zero rectangle for an element it took as hidden.
C28_Witness ==
    /\ IsTargetCapture
    /\ LastRecord.element.position = [x |-> 0, y |-> 0, width |-> 0, height |-> 0]
    /\ ~LastRecord.element.isVisible

\* The last call stopped a session while the storage write threw.
IsFailedStop ==
    /\ lastOp.arg = "storage throws"
    /\ HasSession(pre.state)
    /\ \/ lastOp.name = "stopSession"
       \/ lastOp.name = "toggleRecording" /\ pre.engineRecording

\* C27: when the storage write fails while a session is being stopped, the
\* machine still reaches Inactive and the session, with all its actions, is
\* still the current session afterwards; for stopRecording and stopSession.
C27_PersistenceFailureKeepsSession ==
    IsFailedStop =>
        /\ state.mode = INACTIVE
        /\ HasSession(state)
        /\ Session(state).id = Session(pre.state).id
        /\ Session(state).actions = Session(pre.state).actions

\* The notifications a listener received that report a mode transition.
ModeChanges(calls) == SelectSeq(calls, LAMBDA c : c.new # c.prev)

InTransitionOrder(calls) ==
    /\ ModeChanges(calls) = notified.transitions
    /\ ModeChanges(calls) # <<>> =>
          ModeChanges(calls)[Len(ModeChanges(calls))].new = state.mode

\* C26: every mode transition of a call is notified to every listener as
\* (new state, previous state) in the order the transitions happened, so the
\* last notification a listener received carries the current mode, also when
\* a listener triggered a further transition during the notification.
C26_NotifiedInTransitionOrder ==
    /\ InTransitionOrder(notified.recording)
    /\ InTransitionOrder(notified.selection)

\* C30: any two executions of the function throttle() wraps are at least the
\* delay apart, whatever the interleaving of calls and timer callbacks, a timer
\* firing at its deadline or later.
C30_ExecutionsDelayApart ==
    Len(closure.execTimes) = 2 =>
        closure.execTimes[2] - closure.execTimes[1] >= Delay

\* C31: when a state listener throws during a notification, the state update
\* stays applied (a capture's record is in the session), every listener is
\* called for every update of the call, and no exception leaves setState.
C31_ListenerFailureIsolated ==
    notified.failing # "" =>
        /\ ~notified.uncaught
        /\ \A listener \in Listeners : Len(notified[listener]) = notified.updates
        /\ IsCapture =>
              /\ HasSession(state)
              /\ Len(Session(state).actions) = Len(ActionsOf(pre.state)) + 1

C31_Witness ==
    /\ notified.failing = "actionList"
    /\ IsCapture
    /\ notified.updates = 1
    /\ Len(notified.selection) = 1
    /\ Len(Session(state).actions) = 1

\* C32: in every state in which the mode is ManualSelection or AutoRecording
\* the capture listeners are attached, also after the Escape key.
C32_ActiveModeIsArmed ==
    state.mode \in {MANUAL_SELECTION, AUTO_RECORDING} => isSelectionMode

\* C33: while armed, a click on the tool's own UI is not recorded, is neither
\* default-prevented nor stopped, and reaches the panel's control: a click on
\* the Stop Recording button leaves the active mode.
C33_ExcludedClickUntouched ==
    (lastOp.name = "clickStartRecording" /\ pre.isSelectionMode) =>
        /\ ~DispatchedClick(pre.isSelectionMode).defaultPrevented
        /\ ~DispatchedClick(pre.isSelectionMode).propagationStopped
        /\ ActionsOf(state) = ActionsOf(pre.state)
        /\ pre.state.mode \in {MANUAL_SELECTION, AUTO_RECORDING} => state.mode = INACTIVE

\* C34: when startSession returns id X, the current session has id X and the
\* name passed to startSession, and the sessionStarted event carried that
\* session.
C34_StartSessionReturnsCurrentId ==
    lastOp.name = "startSession" =>
        /\ HasSession(state)
        /\ Session(state).id = lastOp.ret
        /\ Session(state).name = lastOp.arg
        /\ lastEmit.type = "sessionStarted"
        /\ lastEmit.session # Null
        /\ lastEmit.session[1].id = Session(state).id

\* C35: in every state isRecording is true exactly when the mode is not
\* Inactive, and isPaused is true exactly when the mode is Paused.
C35_FlagsAgreeWithMode ==
    /\ state.isRecording <=> state.mode # INACTIVE
    /\ state.isPaused <=> state.mode = PAUSED

\* C36: a non-null current session always has an id and a startTime; a
\* capture through selectElement or addRequestToActions never creates a
\* session object without them.
C36_CurrentSessionIsReal ==
    HasSession(state) =>
        /\ Session(state).id # NoId
        /\ Session(state).startTime # NoTime

\* C37: whenever isMonitoring is false, window.fetch and
\* XMLHttpRequest.prototype.open and send are the functions in place before
\* the first start, and while isMonitoring is true the saved originals are
\* never the monitor's own wrappers.
C37_InterceptionInstalledAndRemoved ==
    /\ ~isMonitoring =>
          /\ monitor.fetch = "fetch"
          /\ monitor.open = "open"
          /\ monitor.send = "send"
    /\ isMonitoring =>
          /\ monitor.originalFetch = Some("fetch")
          /\ monitor.originalXHROpen = Some("open")
          /\ monitor.originalXHRSend = Some("send")

C37_Witness ==
    /\ lastOp.name = "stopMonitoring"
    /\ pre.isMonitoring
    /\ ~isMonitoring
    /\ monitor.fetch = "fetch"
    /\ monitor.originalFetch = Null

\* C38: once stopMonitoring has returned, no request is added to
\* capturedRequests or to state.networkRequests, also not one that was issued
\* while monitoring was on and whose response arrives afterwards.
C38_NothingCapturedAfterStop ==
    [][(~isMonitoring /\ ~isMonitoring') =>
          /\ Len(networkRequests') <= Len(networkRequests)
          /\ Len(monitor'.capturedRequests) <= Len(monitor.capturedRequests)]_vars

\* C39: once no timer of the throttle is pending, the last execution of func
\* used the arguments of the most recent call of the throttled function.
C39_EndsOnNewestInput ==
    (closure.timeoutId = NoTime /\ closure.execTimes # <<>>) =>
        closure.execArgs = closure.callArgs

\* The records of a list other than the one at index i.
AllBut(s, i) == IF i <= Len(s) THEN RemoveAt(s, i) ELSE s

\* Every record of `kept` is in `s`, in the same order.
KeptInOrder(kept, s) ==
    \E f \in [1..Len(kept) -> 1..Len(s)] :
        /\ \A k \in 1..Len(kept) : s[f[k]] = kept[k]
        /\ \A k, l \in 1..Len(kept) : k < l => f[k] < f[l]

\* C40: saving an edit of action i changes only action i: every other record
\* that is in the current session when Save is pressed, also one appended
\* after the dialog was opened, is in the session afterwards, unchanged and at
\* the same place.
C40_SaveChangesOnlyEditedAction ==
    [][(PanelSaveAction /\ HasSession(state)) =>
          /\ HasSession(state')
          /\ KeptInOrder(AllBut(Session(state).actions, editDialog[1].actionIndex),
                         Session(state').actions)]_vars
====
